---- MODULE Spec2Model ----
(***************************************************************************)
(* A model of the XDF reader of xdf_rs.                                    *)
(*                                                                         *)
(*   Spec        the chunk framer, read_to_raw_chunks (raw_chunks.rs)      *)
(*   SpecDecode  the chunk decoders run over raw chunks in file order      *)
(*   SpecHeader  the two StreamHeader decoders applied to one descriptor   *)
(*   SpecStreams group_chunks and process_streams on decoded chunks (lib.rs)*)
(*   SpecSamples process_samples on the sample chunks of one stream         *)
(*   SpecInterp  calls of interpolate_and_add_offsets sharing one cursor    *)
(*                                                                         *)
(* Bytes are naturals below 256, a byte buffer is a sequence of bytes and  *)
(* an iterator over it is the number of bytes already consumed.            *)
(***************************************************************************)
EXTENDS Integers, Sequences, FiniteSets, TLC

VARIABLES
    file_bytes,         \* the input of read_to_raw_chunks
    pc,                 \* position in read_to_raw_chunks: "start", "loop", "done"
    pos,                \* content_iter: number of bytes consumed
    chunk_start,        \* value of pos at the head of the latest loop iteration
    raw_chunks,         \* Vec<RawChunk>
    file_header_found,  \* bool
    ret,                \* what read_to_raw_chunks returned (kind "None" while running)
    dec_input,          \* the raw chunks handed to the decoders, in file order
    dec_pc,             \* "run" or "done"
    dec_next,           \* index of the next raw chunk to decode
    stream_info_map,    \* HashMap<u32, StreamHeaderChunkInfo>
    stream_num_samples_map, \* HashMap<u32, u64>
    dec_chunks,         \* the chunks decoded so far
    dec_ret,            \* how decoding ended (kind "None" while running)
    hdr_xml,            \* the descriptor given to the StreamHeader decoders
    hdr_pc,             \* "ready" or "done"
    hdr_old,            \* result of parse_stream_header (raw_chunks.rs)
    hdr_new,            \* result of stream_header (parsers/stream_header.rs)
    fb_chunks,          \* the decoded chunks of the file, in file order
    fb_pc,              \* position in from_bytes: "idle" or "streams"
    fb_run,             \* number of calls of from_bytes started on fb_chunks
    fb_grouped,         \* GroupedChunks of the running call
    fb_pending,         \* keys of stream_header_map not yet visited by the for loop
    fb_streams_vec,     \* streams_vec of the running call
    fb_results,         \* what each finished call returned, in call order
    ps_iterators,       \* sample_iterators given to process_samples
    ps_offsets,         \* stream_offsets given to process_samples
    ps_srate,           \* nominal_srate given to process_samples
    ps_pc,              \* "ready" or "done"
    ps_out,             \* the Vec<Sample> process_samples returned
    ip_offsets,         \* stream_offsets of the interpolator calls
    ip_pc,              \* position in interpolate_and_add_offsets: "idle" or "loop"
    ip_index,           \* *offset_index, the cursor shared by the calls
    ip_start,           \* value of the cursor before the first call
    ip_entry,           \* value of the cursor when the latest call began
    ip_ts,              \* ts of the latest call
    ip_ret,             \* what the latest finished call returned
    ip_calls,           \* number of calls begun
    ip_sorted_ts,       \* no call so far had a ts below that of the call before it
    ip_increments       \* number of times *offset_index += 1 ran, all calls together

framerVars == <<file_bytes, pc, pos, chunk_start, raw_chunks, file_header_found, ret>>
decodeVars == <<dec_input, dec_pc, dec_next, stream_info_map, stream_num_samples_map,
                dec_chunks, dec_ret>>
headerVars == <<hdr_xml, hdr_pc, hdr_old, hdr_new>>
streamsVars == <<fb_chunks, fb_pc, fb_run, fb_grouped, fb_pending, fb_streams_vec,
                 fb_results>>
samplesVars == <<ps_iterators, ps_offsets, ps_srate, ps_pc, ps_out>>
interpVars == <<ip_offsets, ip_pc, ip_index, ip_start, ip_entry, ip_ts, ip_ret,
                ip_calls, ip_sorted_ts, ip_increments>>
vars == <<framerVars, decodeVars, headerVars, streamsVars, samplesVars, interpVars>>

-----------------------------------------------------------------------------
(* Bounds of the model *)

\* longest input body (the bytes after the magic number) that is enumerated
MaxBody == 8

\* the byte values the enumerated bodies are made of
Byte == {0, 1, 2, 4}

-----------------------------------------------------------------------------
(* Results *)

NoneYet == [kind |-> "None", err |-> "", arg |-> 0, chunks |-> <<>>]
Ok(chunks) == [kind |-> "Ok", err |-> "", arg |-> 0, chunks |-> chunks]
Err(e, a) == [kind |-> "Err", err |-> e, arg |-> a, chunks |-> <<>>]
Panic == [kind |-> "Panic", err |-> "", arg |-> 0, chunks |-> <<>>]

-----------------------------------------------------------------------------
(* Primitive readers *)

\* LittleEndian::read_u16 / read_u32 / read_u64 / read_uint
RECURSIVE LittleEndian(_)
LittleEndian(bs) ==
    IF bs = <<>> THEN 0 ELSE bs[1] + 256 * LittleEndian(Tail(bs))

\* exact_byte_slice!: len bytes from the iterator, or ReadChunkError when it
\* runs dry first (the bytes taken until then are consumed)
exact_byte_slice(bytes, p, len) ==
    IF Len(bytes) - p >= len
    THEN [ok |-> TRUE, slice |-> SubSeq(bytes, p + 1, p + len), pos |-> p + len]
    ELSE [ok |-> FALSE, slice |-> <<>>, pos |-> Len(bytes)]

\* Iterator::take(n).collect(): at most n bytes
take(bytes, p, n) ==
    LET got == IF Len(bytes) - p < n THEN Len(bytes) - p ELSE n
    IN  [slice |-> SubSeq(bytes, p + 1, p + got), pos |-> p + got]

-----------------------------------------------------------------------------
(* read_to_raw_chunks *)

magic_number == <<88, 68, 70, 58>>      \* "XDF:".as_bytes()

\* file_start != magic_number
MagicMismatch_Prefix(file_start) ==
    file_start # SubSeq(magic_number, 1, Len(file_start))
MagicMismatch(file_start) == file_start # magic_number

\* match chunk_tag_num { 1 => FileHeader, ..., 6 => StreamFooter, _ => bail }
TagName(k) ==
    CASE k = 1 -> "FileHeader"
      [] k = 2 -> "StreamHeader"
      [] k = 3 -> "Samples"
      [] k = 4 -> "ClockOffset"
      [] k = 5 -> "Boundary"
      [] k = 6 -> "StreamFooter"
      [] OTHER -> "Invalid"

ValidTag_ZeroToSix(k) == k \in 0..6
ValidTag(k) == k \in 1..6

\* tag 1 while file_header_found is set: more than one FileHeader
SecondFileHeader_Never(k, found) == FALSE
SecondFileHeader(k, found) == k = 1 /\ found

\* stands for 2^64, the modulus of usize arithmetic: every value of at least
\* this model's input length behaves like the wrapped difference
UsizeModulus == 1073741824

\* chunk_length - 2 on usize. With overflow checks (debug builds) a length
\* below 2 aborts; without them (release builds) the difference wraps.
RemainingLengths(chunk_length) ==
    IF chunk_length >= 2
    THEN {[panic |-> FALSE, len |-> chunk_length - 2]}
    ELSE {[panic |-> TRUE, len |-> 0],
          [panic |-> FALSE, len |-> chunk_length + UsizeModulus - 2]}

\* chunk_bytes.len() != remaining_chunk_length
ContentShort_Never(chunk_bytes, remaining_chunk_length) == FALSE
ContentShort(chunk_bytes, remaining_chunk_length) ==
    Len(chunk_bytes) # remaining_chunk_length

\* the length prefix: match num_length_bytes { 1 => .., 4 => .., 8 => .., _ => bail }
ReadChunkLength(bytes, p, num_length_bytes) ==
    CASE num_length_bytes = 1 ->
            IF p < Len(bytes)
            THEN [kind |-> "Ok", len |-> bytes[p + 1], pos |-> p + 1, res |-> NoneYet]
            ELSE [kind |-> "Stop", len |-> 0, pos |-> p, res |-> Panic]   \* next().unwrap()
      [] num_length_bytes \in {4, 8} ->
            LET s == exact_byte_slice(bytes, p, num_length_bytes)
            IN  IF s.ok
                THEN [kind |-> "Ok", len |-> LittleEndian(s.slice), pos |-> s.pos,
                      res |-> NoneYet]
                ELSE [kind |-> "Stop", len |-> 0, pos |-> s.pos,
                      res |-> Err("ReadChunkError", 0)]
      [] OTHER ->
            [kind |-> "Stop", len |-> 0, pos |-> p,
             res |-> Err("InvalidNumCountBytes", num_length_bytes)]

\* if !file_header_found { bail!(MissingFileHeaderError) }  Ok(raw_chunks)
FinalResult_NoCheck(found, chunks) == Ok(chunks)
FinalResult(found, chunks) ==
    IF ~found THEN Err("MissingFileHeaderError", 0) ELSE Ok(chunks)

\* One pass through the body of the while loop, entered with the iterator at
\* p (a byte is left). The set holds one outcome, or two when the build decides.
LoopBody(bytes, p, chunks, found) ==
    LET num_length_bytes == bytes[p + 1]
        l == ReadChunkLength(bytes, p + 1, num_length_bytes)
        stop(at, r) == [pos |-> at, raw_chunks |-> chunks, found |-> found, res |-> r]
    IN
    IF l.kind = "Stop" THEN {stop(l.pos, l.res)}
    ELSE
    LET t == exact_byte_slice(bytes, l.pos, 2) IN
    IF ~t.ok THEN {stop(t.pos, Err("ReadChunkError", 0))}
    ELSE
    LET chunk_tag_num == LittleEndian(t.slice) IN
    IF SecondFileHeader(chunk_tag_num, found) THEN {stop(t.pos, Ok(chunks))}
    ELSE IF ~ValidTag(chunk_tag_num)
    THEN {stop(t.pos, Err("InvalidTagError", chunk_tag_num))}
    ELSE
    LET found2 == found \/ chunk_tag_num = 1 IN
    { IF r.panic
      THEN [pos |-> t.pos, raw_chunks |-> chunks, found |-> found2, res |-> Panic]
      ELSE LET c == take(bytes, t.pos, r.len) IN
           IF ContentShort(c.slice, r.len)
           THEN [pos |-> c.pos, raw_chunks |-> chunks, found |-> found2,
                 res |-> Ok(chunks)]
           ELSE [pos |-> c.pos,
                 raw_chunks |-> Append(chunks, [tag |-> TagName(chunk_tag_num),
                                                content_bytes |-> c.slice]),
                 found |-> found2, res |-> NoneYet]
      : r \in RemainingLengths(l.len) }

\* lines 35-42: take the first four bytes and compare them with the magic number
CheckMagic ==
    /\ pc = "start"
    /\ LET file_start == take(file_bytes, 0, Len(magic_number)) IN
       /\ pos' = file_start.pos
       /\ IF MagicMismatch(file_start.slice)
          THEN pc' = "done" /\ ret' = Err("NoMagicNumberError", 0)
          ELSE pc' = "loop" /\ ret' = ret
    /\ UNCHANGED <<file_bytes, chunk_start, raw_chunks, file_header_found>>
    /\ UNCHANGED <<decodeVars, headerVars>>
    /\ UNCHANGED <<streamsVars, samplesVars, interpVars>>

\* lines 44-100: one iteration of while let Some(num_length_bytes) = content_iter.next()
ReadChunk ==
    /\ pc = "loop"
    /\ pos < Len(file_bytes)
    /\ chunk_start' = pos
    /\ \E o \in LoopBody(file_bytes, pos, raw_chunks, file_header_found) :
         /\ pos' = o.pos
         /\ raw_chunks' = o.raw_chunks
         /\ file_header_found' = o.found
         /\ ret' = o.res
         /\ pc' = IF o.res.kind = "None" THEN "loop" ELSE "done"
    /\ UNCHANGED file_bytes
    /\ UNCHANGED <<decodeVars, headerVars>>
    /\ UNCHANGED <<streamsVars, samplesVars, interpVars>>

\* lines 102-106: the iterator is exhausted
EndOfInput ==
    /\ pc = "loop"
    /\ pos >= Len(file_bytes)
    /\ ret' = FinalResult(file_header_found, raw_chunks)
    /\ pc' = "done"
    /\ UNCHANGED <<file_bytes, pos, chunk_start, raw_chunks, file_header_found>>
    /\ UNCHANGED <<decodeVars, headerVars>>
    /\ UNCHANGED <<streamsVars, samplesVars, interpVars>>

-----------------------------------------------------------------------------
(* Inputs of the framer *)

BodiesUpTo(n) == UNION {[1..k -> Byte] : k \in 0..n}

\* inputs that do not start with the magic number
BadStarts ==
    {<<>>, <<88>>, <<88, 68>>, <<88, 68, 70>>,
     <<88, 68, 65, 58>>, <<88, 68, 70, 59>>, <<120, 100, 102, 58>>,
     <<1, 2, 1, 0>>}

\* a complete FileHeader chunk with an empty body
HeaderChunkBytes == <<1, 2, 1, 0>>

\* inputs with byte values outside Byte: the 8-byte length prefix, the tags
\* 5 to 7 and the inputs of the tests chunk_too_short and invalid_tags
ExtraBodies ==
    {<<4, 0, 0, 0, 20, 3, 0, 1, 2, 3>>,
     <<1, 3, 0, 0, 10>>,
     <<1, 3, 7, 0, 10>>,
     <<8>>, <<8, 2, 0, 0, 0>>,
     <<8, 2, 0, 0, 0, 0, 0, 0, 0>>,
     <<8, 2, 0, 0, 0, 0, 0, 0, 0, 1>>,
     <<8, 2, 0, 0, 0, 0, 0, 0, 0, 1, 0>>,
     <<8, 3, 0, 0, 0, 0, 0, 0, 0, 5, 0, 9>>,
     <<8, 3, 0, 0, 0, 0, 0, 0, 0, 6, 0>>,
     <<8, 2, 0, 0, 0, 0, 0, 0, 0, 7, 0>>,
     <<1, 2, 1, 0, 1, 3, 5, 0, 9, 1, 2, 6, 0, 1, 2, 1, 0, 1, 2, 2, 0>>,
     <<1, 2, 1, 0, 1, 2, 3, 0, 1, 9, 2, 0, 1, 2, 3>>,
     <<1, 2, 5, 0, 1, 2, 6, 0>>,
     <<1, 2, 1, 0, 1, 3, 7, 0, 10>>,
     <<1, 2, 1, 0, 9>>, <<1, 2, 1, 0, 1, 2, 255, 255>>}

FramerInputs ==
    {magic_number \o b : b \in BodiesUpTo(MaxBody)}
    \cup {magic_number \o b : b \in ExtraBodies}
    \cup {s \o b : s \in {x \in BadStarts : Len(x) = 4},
                   b \in {<<>>, HeaderChunkBytes}}
    \cup {s \in BadStarts : Len(s) < 4}

-----------------------------------------------------------------------------
(* Specification of the framer *)

DecodeIdle ==
    /\ dec_input = <<>> /\ dec_pc = "done" /\ dec_next = 1
    /\ stream_info_map = <<>> /\ stream_num_samples_map = <<>>
    /\ dec_chunks = <<>> /\ dec_ret = NoneYet

HeaderIdle ==
    /\ hdr_xml = <<>> /\ hdr_pc = "done" /\ hdr_old = NoneYet /\ hdr_new = NoneYet

FramerIdle ==
    /\ file_bytes = <<>> /\ pc = "done" /\ pos = 0 /\ chunk_start = 0
    /\ raw_chunks = <<>> /\ file_header_found = FALSE /\ ret = NoneYet

StreamsIdle ==
    /\ fb_chunks = <<>> /\ fb_pc = "idle" /\ fb_run = 0 /\ fb_grouped = <<>>
    /\ fb_pending = {} /\ fb_streams_vec = <<>> /\ fb_results = <<>>

SamplesIdle ==
    /\ ps_iterators = <<>> /\ ps_offsets = <<>> /\ ps_srate = 0 /\ ps_pc = "done"
    /\ ps_out = <<>>

InterpIdle ==
    /\ ip_offsets = <<>> /\ ip_pc = "idle" /\ ip_index = 0 /\ ip_start = 0
    /\ ip_entry = 0 /\ ip_ts = 0 /\ ip_ret = 0 /\ ip_calls = 0
    /\ ip_sorted_ts = TRUE /\ ip_increments = 0

LaterIdle == StreamsIdle /\ SamplesIdle /\ InterpIdle

Init ==
    /\ file_bytes \in FramerInputs
    /\ pc = "start"
    /\ pos = 0
    /\ chunk_start = 0
    /\ raw_chunks = <<>>
    /\ file_header_found = FALSE
    /\ ret = NoneYet
    /\ DecodeIdle
    /\ HeaderIdle
    /\ LaterIdle

Next == CheckMagic \/ ReadChunk \/ EndOfInput

Spec == Init /\ [][Next]_vars

-----------------------------------------------------------------------------
(* XML descriptors.  The XML parser is an external collaborator: a descriptor *)
(* is the element the parser returns, a record of the text of the children    *)
(* the decoders read.  Text is a sequence of ASCII codes.                     *)

Missing == [present |-> FALSE, text |-> <<>>]
Text(t) == [present |-> TRUE, text |-> t]

None == [some |-> FALSE]
Some(x) == [some |-> TRUE, v |-> x]

T_int8 == <<105, 110, 116, 56>>
T_int16 == <<105, 110, 116, 49, 54>>
T_int32 == <<105, 110, 116, 51, 50>>
T_int64 == <<105, 110, 116, 54, 52>>
T_float32 == <<102, 108, 111, 97, 116, 51, 50>>
T_double64 == <<100, 111, 117, 98, 108, 101, 54, 52>>
T_string == <<115, 116, 114, 105, 110, 103>>
T_in8 == <<105, 110, 56>>
T_float64 == <<102, 108, 111, 97, 116, 54, 52>>
T_uint8 == <<117, 105, 110, 116, 56>>

\* str::to_lowercase on ASCII text
to_lowercase(t) == [i \in DOMAIN t |-> IF t[i] \in 65..90 THEN t[i] + 32 ELSE t[i]]

IsDigits(t) == t # <<>> /\ \A i \in DOMAIN t : t[i] \in 48..57

RECURSIVE DecimalValue(_)
DecimalValue(t) ==
    IF t = <<>> THEN 0
    ELSE 10 * DecimalValue(SubSeq(t, 1, Len(t) - 1)) + (t[Len(t)] - 48)

\* str::parse::<u32>(): decimal digits after an optional '+', below 2^32
\* (the texts of this model stay below 10 digits)
parse_u32(t) ==
    LET d == IF t # <<>> /\ t[1] = 43 THEN Tail(t) ELSE t
    IN  IF IsDigits(d) /\ Len(d) <= 9 THEN Some(DecimalValue(d)) ELSE None

\* str::parse::<f64>() on the texts of this model: a run of decimal digits
\* is its value, a text with any other character is no number
parse_f64(t) ==
    IF IsDigits(t) /\ Len(t) <= 9 THEN Some(DecimalValue(t)) ELSE None

\* util::get_text_from_child: the text of the child, or an error
get_text_from_child(root, child) ==
    IF root[child].present
    THEN [ok |-> TRUE, text |-> root[child].text]
    ELSE [ok |-> FALSE, text |-> <<>>]

-----------------------------------------------------------------------------
(* parsers/stream_header.rs *)

str_to_format(input) ==
    CASE input = T_int8 -> Some("Int8")
      [] input = T_int16 -> Some("Int16")
      [] input = T_int32 -> Some("Int32")
      [] input = T_float32 -> Some("Float32")
      [] input = T_double64 -> Some("Float64")
      [] input = T_string -> Some("String")
      [] OTHER -> None

NomFailure == [kind |-> "Err", err |-> "Failure", arg |-> "Count"]

\* stream_header from the parsed descriptor on (lines 31-66)
stream_header(xml) ==
    LET channel_count_string == get_text_from_child(xml, "channel_count")
        nominal_srate_string == get_text_from_child(xml, "nominal_srate")
        format_string == get_text_from_child(xml, "channel_format")
    IN
    IF ~(channel_count_string.ok /\ nominal_srate_string.ok /\ format_string.ok)
    THEN NomFailure
    ELSE
    LET channel_format == str_to_format(format_string.text)
        channel_count == parse_u32(channel_count_string.text)
    IN
    IF ~(channel_format.some /\ channel_count.some)
    THEN NomFailure
    ELSE
    LET name == get_text_from_child(xml, "name")
        stream_type == get_text_from_child(xml, "type")
    IN  [kind |-> "Ok",
         info |-> [channel_count |-> channel_count.v,
                   nominal_srate |-> parse_f64(nominal_srate_string.text),
                   channel_format |-> channel_format.v,
                   name |-> IF name.ok THEN Some(name.text) ELSE None,
                   stream_type |-> IF stream_type.ok THEN Some(stream_type.text)
                                   ELSE None]]

-----------------------------------------------------------------------------
(* raw_chunks.rs: the decoders *)

BadXml(child) == [kind |-> "Err", err |-> "BadXMLElementError", arg |-> child]

\* the match on the lower-cased channel_format text (lines 267-277)
channel_format_match(lowered) ==
    CASE lowered = T_in8 -> Some("Int8")
      [] lowered = T_int16 -> Some("Int16")
      [] lowered = T_int32 -> Some("Int32")
      [] lowered = T_int64 -> Some("Int64")
      [] lowered = T_float32 -> Some("Float32")
      [] lowered = T_double64 -> Some("Float64")
      [] lowered = T_string -> Some("String")
      [] OTHER -> None

\* the StreamHeaderChunkInfo of parse_stream_header (lines 256-278); the
\* fields are evaluated in the order they are written
stream_header_info(root) ==
    LET name == get_text_from_child(root, "name")
        type == get_text_from_child(root, "type")
        cc == get_text_from_child(root, "channel_count")
        sr == get_text_from_child(root, "nominal_srate")
        cf == get_text_from_child(root, "channel_format")
    IN
    IF ~name.ok THEN BadXml("name")
    ELSE IF ~type.ok THEN BadXml("type")
    ELSE IF ~cc.ok \/ ~parse_u32(cc.text).some THEN BadXml("channel_count")
    ELSE IF ~sr.ok \/ ~parse_f64(sr.text).some THEN BadXml("nominal_srate")
    ELSE IF ~cf.ok \/ ~channel_format_match(to_lowercase(cf.text)).some
         THEN BadXml("channel_format")
    ELSE [kind |-> "Ok",
          info |-> [name |-> Some(name.text),
                    type |-> Some(type.text),
                    channel_count |-> parse_u32(cc.text).v,
                    nominal_srate |-> Some(parse_f64(sr.text).v),
                    channel_format |-> channel_format_match(to_lowercase(cf.text)).v]]

\* A raw chunk handed to a decoder: content_bytes holds the binary fields
\* and xml what the XML parser makes of the bytes after them: the root
\* element, or a failure when no byte follows or the bytes are malformed.
NoRoot ==
    [name |-> Missing, type |-> Missing, channel_count |-> Missing,
     nominal_srate |-> Missing, channel_format |-> Missing]
XmlEmpty == [state |-> "Empty", root |-> NoRoot]
XmlMalformed == [state |-> "Malformed", root |-> NoRoot]
XmlElement(root) == [state |-> "Element", root |-> root]

\* Element::parse
XmlParseFails(xml) == xml.state # "Element"

\* HashMap::insert
map_insert(map, key, value) ==
    [k \in DOMAIN map \cup {key} |-> IF k = key THEN value ELSE map[k]]

\* stream_info_map.get(&stream_id)
stream_info_get_Any(map, stream_id) ==
    IF stream_id \in DOMAIN map THEN Some(map[stream_id])
    ELSE IF DOMAIN map # {} THEN Some(map[CHOOSE k \in DOMAIN map : TRUE])
    ELSE None
stream_info_get(map, stream_id) ==
    IF stream_id \in DOMAIN map THEN Some(map[stream_id]) ELSE None

\* parse_stream_header (lines 248-286): the result and the stream_info_map after it
parse_stream_header(raw_chunk, info_map) ==
    IF Len(raw_chunk.content_bytes) < 4
    THEN [res |-> Panic, info_map |-> info_map]                 \* content_bytes[..4]
    ELSE
    LET stream_id == LittleEndian(SubSeq(raw_chunk.content_bytes, 1, 4)) IN
    IF XmlParseFails(raw_chunk.xml)
    THEN [res |-> [kind |-> "Err", err |-> "XmlParseError", arg |-> 0],
          info_map |-> info_map]
    ELSE
    LET i == stream_header_info(raw_chunk.xml.root) IN
    IF i.kind # "Ok" THEN [res |-> i, info_map |-> info_map]
    ELSE [res |-> [kind |-> "Ok",
                   chunk |-> [tag |-> "StreamHeader", stream_id |-> stream_id,
                              info |-> i.info]],
          info_map |-> map_insert(info_map, stream_id, i.info)]

\* parse_stream_footer (lines 111-123)
parse_stream_footer(raw_chunk) ==
    IF Len(raw_chunk.content_bytes) < 4
    THEN Panic                                                   \* content_bytes[..4]
    ELSE IF XmlParseFails(raw_chunk.xml)
    THEN [kind |-> "Err", err |-> "ParseChunkError", arg |-> 0]
    ELSE [kind |-> "Ok",
          chunk |-> [tag |-> "StreamFooter",
                     stream_id |-> LittleEndian(SubSeq(raw_chunk.content_bytes, 1, 4))]]

\* util::extract_timestamp: the flag byte at offset, then an 8-byte float
extract_timestamp(content, offset) ==
    IF offset >= Len(content) THEN [kind |-> "Panic"]
    ELSE IF content[offset + 1] = 0
    THEN [kind |-> "Ok", timestamp |-> None, offset |-> offset + 1]
    ELSE IF content[offset + 1] # 8 THEN [kind |-> "InvalidSample"]
    ELSE IF Len(content) < offset + 9 THEN [kind |-> "Panic"]
    ELSE [kind |-> "Ok", timestamp |-> Some(SubSeq(content, offset + 2, offset + 9)),
          offset |-> offset + 9]

type_size(channel_format) ==
    CASE channel_format = "Int8" -> Some(1)
      [] channel_format = "Int16" -> Some(2)
      [] channel_format = "Int32" -> Some(4)
      [] channel_format = "Int64" -> Some(8)
      [] channel_format = "Float32" -> Some(4)
      [] channel_format = "Float64" -> Some(8)
      [] channel_format = "String" -> None

\* the loop over the samples of a fixed-width format (lines 165-212)
RECURSIVE fixed_samples(_, _, _, _, _)
fixed_samples(content, offset, n, width, samples) ==
    IF n = 0 THEN [kind |-> "Ok", samples |-> samples]
    ELSE
    LET t == extract_timestamp(content, offset) IN
    IF t.kind = "Panic" THEN Panic
    ELSE IF t.kind = "InvalidSample"
    THEN [kind |-> "Err", err |-> "InvalidSample", arg |-> 0]
    ELSE IF Len(content) < t.offset + width THEN Panic        \* the values slice
    ELSE fixed_samples(content, t.offset + width, n - 1, width,
             Append(samples,
                    [timestamp |-> t.timestamp,
                     values |-> SubSeq(content, t.offset + 1, t.offset + width)]))

\* the loop over the samples of the string format (lines 215-241)
RECURSIVE string_samples(_, _, _, _)
string_samples(content, offset, n, samples) ==
    IF n = 0 THEN [kind |-> "Ok", samples |-> samples]
    ELSE
    LET t == extract_timestamp(content, offset) IN
    IF t.kind = "Panic" THEN Panic
    ELSE IF t.kind = "InvalidSample"
    THEN [kind |-> "Err", err |-> "InvalidSample", arg |-> 0]
    ELSE IF t.offset >= Len(content) THEN Panic        \* content_bytes[offset]
    ELSE
    LET num_length_bytes == content[t.offset + 1]
        o == t.offset + 1
    IN
    IF num_length_bytes \notin {1, 4, 8}
    THEN [kind |-> "Err", err |-> "InvalidNumCountBytes", arg |-> num_length_bytes]
    ELSE IF Len(content) < o + num_length_bytes THEN Panic
    ELSE
    LET value_length == LittleEndian(SubSeq(content, o + 1, o + num_length_bytes))
        v == o + num_length_bytes
    IN
    IF Len(content) < v + value_length THEN Panic     \* the value slice
    ELSE IF \E i \in (v + 1)..(v + value_length) : content[i] >= 128
    THEN [kind |-> "Err", err |-> "Utf8Error", arg |-> 0]      \* read_to_string
    ELSE string_samples(content, v + value_length, n - 1,
             Append(samples,
                    [timestamp |-> t.timestamp,
                     values |-> SubSeq(content, v + 1, v + value_length)]))

\* parse_samples (lines 126-245): the result and the stream_num_samples_map after it
parse_samples(raw_chunk, num_samples_map, stream_id, info_map) ==
    LET content == raw_chunk.content_bytes IN
    IF Len(content) < 5
    THEN [res |-> Panic, num_samples_map |-> num_samples_map]   \* content_bytes[4]
    ELSE
    LET num_samples_byte_num == content[5] IN
    IF num_samples_byte_num \notin {1, 4, 8}
    THEN [res |-> [kind |-> "Err", err |-> "InvalidNumCountBytes",
                   arg |-> num_samples_byte_num],
          num_samples_map |-> num_samples_map]
    ELSE IF Len(content) < 5 + num_samples_byte_num
    THEN [res |-> Panic, num_samples_map |-> num_samples_map]   \* content_bytes[5..5+n]
    ELSE
    LET num_samples == LittleEndian(SubSeq(content, 6, 5 + num_samples_byte_num))
        counted == map_insert(num_samples_map, stream_id,
                       IF stream_id \in DOMAIN num_samples_map
                       THEN num_samples_map[stream_id] + num_samples
                       ELSE num_samples)
        stream_info == stream_info_get(info_map, stream_id)
    IN
    IF ~stream_info.some
    THEN [res |-> [kind |-> "Err", err |-> "MissingStreamHeaderError",
                   arg |-> stream_id],
          num_samples_map |-> counted]
    ELSE
    LET size == type_size(stream_info.v.channel_format)
        offset == 4 + 1 + num_samples_byte_num
        r == IF size.some
             THEN fixed_samples(content, offset, num_samples,
                                size.v * stream_info.v.channel_count, <<>>)
             ELSE string_samples(content, offset, num_samples, <<>>)
    IN  [res |-> IF r.kind = "Ok"
                 THEN [kind |-> "Ok",
                       chunk |-> [tag |-> "Samples", stream_id |-> stream_id,
                                  samples |-> r.samples]]
                 ELSE r,
         num_samples_map |-> counted]

\* The caller of the decoders: each raw chunk, in file order, goes to the
\* decoder of its tag; the first error ends the decoding.
decode_chunk(raw_chunk, info_map, num_samples_map) ==
    CASE raw_chunk.tag = "StreamHeader" ->
            LET r == parse_stream_header(raw_chunk, info_map)
            IN  [res |-> r.res, info_map |-> r.info_map,
                 num_samples_map |-> num_samples_map]
      [] raw_chunk.tag = "Samples" ->
            IF Len(raw_chunk.content_bytes) < 4
            THEN [res |-> Panic, info_map |-> info_map,
                  num_samples_map |-> num_samples_map]
            ELSE LET r == parse_samples(raw_chunk, num_samples_map,
                              LittleEndian(SubSeq(raw_chunk.content_bytes, 1, 4)),
                              info_map)
                 IN  [res |-> r.res, info_map |-> info_map,
                      num_samples_map |-> r.num_samples_map]
      [] raw_chunk.tag = "StreamFooter" ->
            [res |-> parse_stream_footer(raw_chunk), info_map |-> info_map,
             num_samples_map |-> num_samples_map]
      [] OTHER ->
            [res |-> [kind |-> "Ok", chunk |-> [tag |-> "Boundary"]],
             info_map |-> info_map, num_samples_map |-> num_samples_map]

DecodeChunk ==
    /\ dec_pc = "run"
    /\ dec_next <= Len(dec_input)
    /\ LET r == decode_chunk(dec_input[dec_next], stream_info_map,
                             stream_num_samples_map)
       IN  /\ stream_info_map' = r.info_map
           /\ stream_num_samples_map' = r.num_samples_map
           /\ IF r.res.kind = "Ok"
              THEN /\ dec_chunks' = Append(dec_chunks, r.res.chunk)
                   /\ dec_next' = dec_next + 1
                   /\ UNCHANGED <<dec_pc, dec_ret>>
              ELSE /\ dec_ret' = r.res
                   /\ dec_pc' = "done"
                   /\ UNCHANGED <<dec_chunks, dec_next>>
    /\ UNCHANGED dec_input
    /\ UNCHANGED <<framerVars, headerVars>>
    /\ UNCHANGED <<streamsVars, samplesVars, interpVars>>

DecodeEnd ==
    /\ dec_pc = "run"
    /\ dec_next > Len(dec_input)
    /\ dec_ret' = [kind |-> "Ok"]
    /\ dec_pc' = "done"
    /\ UNCHANGED <<dec_input, dec_next, stream_info_map, stream_num_samples_map,
                   dec_chunks>>
    /\ UNCHANGED <<framerVars, headerVars>>
    /\ UNCHANGED <<streamsVars, samplesVars, interpVars>>

-----------------------------------------------------------------------------
(* Inputs of the decoders *)

\* most raw chunks of one decoded file
MaxChunks == 3

Xml(name, type, cc, sr, cf) ==
    [name |-> name, type |-> type, channel_count |-> cc, nominal_srate |-> sr,
     channel_format |-> cf]

T_n == <<110>>
T_t == <<116>>
T_0 == <<48>>
T_1 == <<49>>
T_10 == <<49, 48>>

IdBytes == {<<1, 0, 0, 0>>, <<2, 0, 0, 0>>}

HeaderChunks ==
    {[tag |-> "StreamHeader", content_bytes |-> <<1, 0, 0, 0>>,
      xml |-> XmlElement(Xml(Text(T_n), Text(T_t), Text(T_0), Text(T_10), Text(T_int16)))],
     [tag |-> "StreamHeader", content_bytes |-> <<2, 0, 0, 0>>,
      xml |-> XmlElement(Xml(Text(T_n), Text(T_t), Text(T_1), Text(T_10), Text(T_int16)))],
     [tag |-> "StreamHeader", content_bytes |-> <<1, 0, 0, 0>>,
      xml |-> XmlElement(Xml(Text(T_n), Text(T_t), Text(T_1), Text(T_0), Text(T_string)))],
     [tag |-> "StreamHeader", content_bytes |-> <<2, 0, 0, 0>>,
      xml |-> XmlElement(Xml(Missing, Text(T_t), Text(T_1), Text(T_0), Text(T_string)))],
     [tag |-> "StreamHeader", content_bytes |-> <<1, 0>>, xml |-> XmlEmpty]}

\* the bytes of a Samples chunk after the stream id
SampleTails ==
    {<<>>, <<1>>, <<2, 0>>, <<1, 0>>, <<1, 1, 0>>, <<1, 1, 0, 7, 7>>,
     <<1, 1, 0, 1, 1, 65>>}

SamplesChunks ==
    {[tag |-> "Samples", content_bytes |-> id \o t, xml |-> XmlEmpty] :
        id \in IdBytes, t \in SampleTails}
    \cup {[tag |-> "Samples", content_bytes |-> <<1, 1, 0, 0, 1, 0>>, xml |-> XmlEmpty],
          [tag |-> "Samples", content_bytes |-> <<1, 0, 0>>, xml |-> XmlEmpty]}

FooterChunks ==
    {[tag |-> "StreamFooter", content_bytes |-> <<1, 0, 0, 0>>,
      xml |-> XmlElement(Xml(Missing, Missing, Missing, Missing, Missing))],
     [tag |-> "StreamFooter", content_bytes |-> <<2, 0, 0, 0>>, xml |-> XmlMalformed],
     [tag |-> "StreamFooter", content_bytes |-> <<2, 0, 0>>, xml |-> XmlEmpty]}

BoundaryChunks == {[tag |-> "Boundary", content_bytes |-> <<>>, xml |-> XmlEmpty]}

DecoderChunks == HeaderChunks \cup SamplesChunks \cup FooterChunks \cup BoundaryChunks

DecoderInputs == UNION {[1..n -> DecoderChunks] : n \in 0..MaxChunks}

InitDecode ==
    /\ dec_input \in DecoderInputs
    /\ dec_pc = "run"
    /\ dec_next = 1
    /\ stream_info_map = <<>>
    /\ stream_num_samples_map = <<>>
    /\ dec_chunks = <<>>
    /\ dec_ret = NoneYet
    /\ FramerIdle
    /\ HeaderIdle
    /\ LaterIdle

NextDecode == DecodeChunk \/ DecodeEnd

SpecDecode == InitDecode /\ [][NextDecode]_vars

-----------------------------------------------------------------------------
(* The StreamHeader decoders on one descriptor *)

FormatTexts ==
    LET lower == {T_int8, T_int16, T_int32, T_int64, T_float32, T_double64, T_string}
        upper(t) == [i \in DOMAIN t |-> IF t[i] \in 97..122 THEN t[i] - 32 ELSE t[i]]
        capital(t) == [i \in DOMAIN t |-> IF i = 1 THEN t[i] - 32 ELSE t[i]]
    IN  lower \cup {upper(t) : t \in lower} \cup {capital(t) : t \in lower}
        \cup {T_in8, upper(T_in8), T_float64, T_uint8, <<>>}

CountTexts == {T_0, T_1, T_10, <<43, 49>>, <<45, 49>>, <<120>>, <<>>}

RateTexts == {T_0, T_10, <<97, 98, 99>>, <<>>}

HeaderXmls ==
    {Xml(n, t, cc, sr, cf) :
        n \in {Missing, Text(T_n)}, t \in {Missing, Text(T_t)},
        cc \in {Missing} \cup {Text(x) : x \in CountTexts},
        sr \in {Missing} \cup {Text(x) : x \in RateTexts},
        cf \in {Missing} \cup {Text(x) : x \in FormatTexts}}

InitHeader ==
    /\ hdr_xml \in HeaderXmls
    /\ hdr_pc = "ready"
    /\ hdr_old = NoneYet
    /\ hdr_new = NoneYet
    /\ FramerIdle
    /\ DecodeIdle
    /\ LaterIdle

DecodeHeader ==
    /\ hdr_pc = "ready"
    /\ hdr_old' = stream_header_info(hdr_xml)
    /\ hdr_new' = stream_header(hdr_xml)
    /\ hdr_pc' = "done"
    /\ UNCHANGED hdr_xml
    /\ UNCHANGED <<framerVars, decodeVars>>
    /\ UNCHANGED <<streamsVars, samplesVars, interpVars>>

NextHeader == DecodeHeader

SpecHeader == InitHeader /\ [][NextHeader]_vars

-----------------------------------------------------------------------------
(* What the input holds at a chunk that starts p bytes into the file *)

ByteAt(p) == file_bytes[p + 1]

\* the size byte is 1, 4 or 8 and all the length bytes are there
PrefixCompleteAt(p) ==
    /\ p < Len(file_bytes)
    /\ ByteAt(p) \in {1, 4, 8}
    /\ Len(file_bytes) >= p + 1 + ByteAt(p)

DeclaredLengthAt(p) == LittleEndian(SubSeq(file_bytes, p + 2, p + 1 + ByteAt(p)))

ContentStartAt(p) == p + 1 + ByteAt(p) + 2

TagCompleteAt(p) == PrefixCompleteAt(p) /\ Len(file_bytes) >= ContentStartAt(p)

TagCodeAt(p) ==
    LittleEndian(SubSeq(file_bytes, ContentStartAt(p) - 1, ContentStartAt(p)))

\* the input ends after the size byte and before the end of the tag
EndsInsideHeadAt(p) ==
    /\ p < Len(file_bytes)
    /\ ByteAt(p) \in {1, 4, 8}
    /\ Len(file_bytes) < ContentStartAt(p)

\* the chunks lie back to back in the input from offset p to offset e, each
\* with its tag and with a content of its declared length less the tag bytes
RECURSIVE ChunksSpan(_, _, _)
ChunksSpan(chunks, p, e) ==
    IF chunks = <<>> THEN p = e
    ELSE LET c == Head(chunks)
             s == ContentStartAt(p)
         IN  /\ TagCompleteAt(p)
             /\ TagName(TagCodeAt(p)) = c.tag
             /\ DeclaredLengthAt(p) = Len(c.content_bytes) + 2
             /\ Len(file_bytes) >= s + Len(c.content_bytes)
             /\ c.content_bytes = SubSeq(file_bytes, s + 1, s + Len(c.content_bytes))
             /\ ChunksSpan(Tail(chunks), s + Len(c.content_bytes), e)

\* a chunk tagged FileHeader starts at or after offset p and before offset e
RECURSIVE HeaderTagBetween(_, _)
HeaderTagBetween(p, e) ==
    /\ p < e
    /\ TagCompleteAt(p)
    /\ \/ TagCodeAt(p) = 1
       \/ /\ DeclaredLengthAt(p) >= 2
          /\ HeaderTagBetween(ContentStartAt(p) + DeclaredLengthAt(p) - 2, e)

StartsWithMagic ==
    Len(file_bytes) >= 4 /\ SubSeq(file_bytes, 1, 4) = magic_number

\* the latest iteration of the loop is the one that started at chunk_start
Stopped == pc = "done" /\ chunk_start >= 4

NumFileHeaders(chunks) ==
    Cardinality({i \in DOMAIN chunks : chunks[i].tag = "FileHeader"})

-----------------------------------------------------------------------------
(* Claims about the framer *)

\* C1: for every byte buffer the framer ends with a result or an error
\* value and never aborts (panics).
C1_NeverPanics == ret.kind # "Panic"

\* C2: if the input ends inside a chunk's length prefix or inside its tag,
\* read_to_raw_chunks returns success with the chunks completed so far.
C2_TruncatedHeadIsSuccess ==
    (Stopped /\ EndsInsideHeadAt(chunk_start))
        => (ret.kind = "Ok" /\ ChunksSpan(ret.chunks, 4, chunk_start))

\* C3: when the length prefix and the tag of a chunk are complete and valid
\* and fewer than L - 2 content bytes remain, read_to_raw_chunks returns
\* success with exactly the chunks that were complete before that chunk, in
\* file order, each with a content of its declared L - 2 bytes.
C3_ShortContent ==
    /\ Stopped
    /\ TagCompleteAt(chunk_start)
    /\ TagCodeAt(chunk_start) \in 1..6
    /\ DeclaredLengthAt(chunk_start) >= 2
    /\ Len(file_bytes) - ContentStartAt(chunk_start) < DeclaredLengthAt(chunk_start) - 2

C3_TruncatedContentReturnsPrefix ==
    C3_ShortContent => (ret.kind = "Ok" /\ ChunksSpan(ret.chunks, 4, chunk_start))

C3_Witness ==
    C3_ShortContent /\ ret.kind = "Ok" /\ Len(ret.chunks) >= 1
    /\ Len(file_bytes) > ContentStartAt(chunk_start)

\* C4 as stated: whenever the framer returns success a FileHeader tag was seen.
C4_SuccessImpliesHeader == ret.kind = "Ok" => file_header_found

\* the content of the chunk at p is cut short by the end of the input
\* (a declared length below 2 wraps to a length no input can supply)
ContentCutAt(p) ==
    /\ TagCompleteAt(p)
    /\ TagCodeAt(p) \in 2..6
    /\ \/ DeclaredLengthAt(p) < 2
       \/ Len(file_bytes) - ContentStartAt(p) < DeclaredLengthAt(p) - 2

\* C4 amended: an input that starts with the magic number and consists of
\* complete chunks none of which is tagged FileHeader fails with
\* MissingFileHeader; a success without any FileHeader tag is returned only
\* when the content of the chunk being read is cut short by the end of the
\* input, and it carries the chunks completed before that chunk.
C4_MissingHeaderUnlessTruncated ==
    /\ (pc = "done" /\ StartsWithMagic /\ ~HeaderTagBetween(4, Len(file_bytes))
          /\ ChunksSpan(raw_chunks, 4, Len(file_bytes)))
        => ret = Err("MissingFileHeaderError", 0)
    /\ (ret.kind = "Ok" /\ ~file_header_found)
        => (Stopped /\ ContentCutAt(chunk_start)
              /\ ChunksSpan(ret.chunks, 4, chunk_start))

C4_Witness ==
    /\ pc = "done" /\ StartsWithMagic
    /\ ret = Err("MissingFileHeaderError", 0)
    /\ Len(raw_chunks) >= 2
    /\ ChunksSpan(raw_chunks, 4, Len(file_bytes))

\* C5: at a second chunk tagged FileHeader read_to_raw_chunks stops and
\* returns success with exactly the chunks completed before it, and a
\* successful result never holds more than one FileHeader chunk.
C5_SecondHeaderAt ==
    /\ Stopped
    /\ TagCompleteAt(chunk_start)
    /\ TagCodeAt(chunk_start) = 1
    /\ HeaderTagBetween(4, chunk_start)

C5_SecondFileHeaderStops ==
    /\ C5_SecondHeaderAt
         => (ret.kind = "Ok" /\ ChunksSpan(ret.chunks, 4, chunk_start))
    /\ ret.kind = "Ok" => NumFileHeaders(ret.chunks) <= 1

C5_Witness ==
    C5_SecondHeaderAt /\ ret.kind = "Ok" /\ NumFileHeaders(ret.chunks) = 1

\* C6: an input whose first 4 bytes are not 'XDF:' (the empty input and
\* inputs shorter than 4 bytes included) fails with NoMagicNumber and no
\* chunk is read.
C6_NoMagicNumber ==
    (pc # "start" /\ ~StartsWithMagic)
        => /\ pc = "done"
           /\ ret = Err("NoMagicNumberError", 0)
           /\ raw_chunks = <<>>
           /\ chunk_start = 0

C6_Witness ==
    /\ pc = "done" /\ ~StartsWithMagic /\ Len(file_bytes) >= 8
    /\ ret = Err("NoMagicNumberError", 0)

\* C7: with a valid magic number, a chunk with a valid length prefix and a
\* tag code k outside 1..6 makes read_to_raw_chunks fail with InvalidTag(k),
\* whether or not its content bytes are present and however many valid
\* chunks came before it.
C7_InvalidTagAt ==
    /\ Stopped
    /\ TagCompleteAt(chunk_start)
    /\ TagCodeAt(chunk_start) \notin 1..6

C7_InvalidTag ==
    C7_InvalidTagAt => ret = Err("InvalidTagError", TagCodeAt(chunk_start))

C7_Witness ==
    /\ C7_InvalidTagAt
    /\ ret.kind = "Err" /\ ret.err = "InvalidTagError" /\ ret.arg \notin 1..6
    /\ chunk_start > 4
    /\ Len(file_bytes) > ContentStartAt(chunk_start)

-----------------------------------------------------------------------------
(* Claims about the decoders *)

StreamIdOf(raw_chunk) == LittleEndian(SubSeq(raw_chunk.content_bytes, 1, 4))

\* the content holds the stream id, a size byte of 1, 4 or 8 and the count
SamplesPrefixValid(raw_chunk) ==
    LET c == raw_chunk.content_bytes
    IN  Len(c) >= 5 /\ c[5] \in {1, 4, 8} /\ Len(c) >= 5 + c[5]

\* a StreamHeader chunk with id s precedes chunk i and was decoded
HeaderDecodedBefore(i, s) ==
    \E j \in 1..(i - 1) :
        /\ j < dec_next
        /\ dec_input[j].tag = "StreamHeader"
        /\ Len(dec_input[j].content_bytes) >= 4
        /\ StreamIdOf(dec_input[j]) = s

MissingHeaderAt(i) ==
    /\ i = dec_next /\ dec_pc = "done"
    /\ dec_ret.kind = "Err" /\ dec_ret.err = "MissingStreamHeaderError"
    /\ dec_ret.arg = StreamIdOf(dec_input[i])

\* C8: decoding chunks in file order, a Samples chunk for stream id s with a
\* valid sample-count prefix is decoded successfully only if a StreamHeader
\* chunk with id s was decoded earlier; otherwise decoding fails with
\* MissingStreamHeader(s), also when the StreamHeader for s comes later.
C8_SamplesNeedPriorHeader ==
    \A i \in DOMAIN dec_input :
        (dec_input[i].tag = "Samples" /\ SamplesPrefixValid(dec_input[i]))
        => /\ i < dec_next => HeaderDecodedBefore(i, StreamIdOf(dec_input[i]))
           /\ (i = dec_next /\ dec_pc = "done"
                 /\ ~HeaderDecodedBefore(i, StreamIdOf(dec_input[i])))
               => MissingHeaderAt(i)

C8_Witness ==
    \E i \in DOMAIN dec_input :
        /\ dec_input[i].tag = "Samples" /\ SamplesPrefixValid(dec_input[i])
        /\ MissingHeaderAt(i)
        /\ i > 1 /\ dec_input[1].tag = "StreamHeader"
        /\ \E j \in (i + 1)..Len(dec_input) :
              /\ dec_input[j].tag = "StreamHeader"
              /\ Len(dec_input[j].content_bytes) >= 4
              /\ StreamIdOf(dec_input[j]) = StreamIdOf(dec_input[i])

\* the mapping of channel_format tokens that C9 states
ClaimedFormat(token) ==
    CASE token = T_int8 -> Some("Int8")
      [] token = T_int16 -> Some("Int16")
      [] token = T_int32 -> Some("Int32")
      [] token = T_int64 -> Some("Int64")
      [] token = T_float32 -> Some("Float32")
      [] token = T_double64 -> Some("Float64")
      [] token = T_string -> Some("String")
      [] OTHER -> None

\* every child but channel_format is present and well formed
OtherFieldsValid(xml) ==
    /\ xml.name.present /\ xml.type.present
    /\ xml.channel_count.present /\ parse_u32(xml.channel_count.text).some
    /\ xml.nominal_srate.present /\ parse_f64(xml.nominal_srate.text).some
    /\ xml.channel_format.present

\* C9: the StreamHeader decoder maps the channel_format token, compared
\* case-insensitively, int8 to Int8, int16 to Int16, int32 to Int32, int64 to
\* Int64, float32 to Float32, double64 to Float64 and string to String, and
\* rejects every other token; each of the seven tokens is accepted.
C9_ChannelFormatMapping ==
    (hdr_pc = "done" /\ OtherFieldsValid(hdr_xml))
    => LET want == ClaimedFormat(to_lowercase(hdr_xml.channel_format.text))
       IN  IF want.some
           THEN /\ hdr_old.kind = "Ok" /\ hdr_old.info.channel_format = want.v
                /\ hdr_new.kind = "Ok" /\ hdr_new.info.channel_format = want.v
           ELSE /\ hdr_old.kind = "Err" /\ hdr_old.err = "BadXMLElementError"
                /\ hdr_old.arg = "channel_format"
                /\ hdr_new.kind = "Err"

\* C10: decoding a StreamHeader succeeds whenever channel_count and
\* channel_format are present and valid, whether or not the nominal_srate,
\* name and type children are present; an absent or unparseable nominal_srate
\* yields a header without nominal_srate and an absent name or type yields
\* that field missing.
C10_OptionalFieldsNeverFail ==
    (/\ hdr_pc = "done"
     /\ hdr_xml.channel_count.present /\ parse_u32(hdr_xml.channel_count.text).some
     /\ hdr_xml.channel_format.present /\ str_to_format(hdr_xml.channel_format.text).some)
    => /\ hdr_new.kind = "Ok"
       /\ hdr_new.info.nominal_srate.some
            = (hdr_xml.nominal_srate.present /\ parse_f64(hdr_xml.nominal_srate.text).some)
       /\ hdr_new.info.name.some = hdr_xml.name.present
       /\ hdr_new.info.stream_type.some = hdr_xml.type.present

-----------------------------------------------------------------------------
(* f64 values.  A value is a fraction n/d in lowest terms with d >= 0:       *)
(* d > 0 is a finite number, 1/0 and -1/0 are the infinities and 0/0 is NaN. *)
(* The arithmetic is exact: rounding and the sign of zero are left out.      *)

RECURSIVE Gcd(_, _)
Gcd(a, b) == IF b = 0 THEN a ELSE Gcd(b, a % b)

Abs(i) == IF i < 0 THEN -i ELSE i

Sign(i) == IF i > 0 THEN 1 ELSE IF i < 0 THEN -1 ELSE 0

Float(n, d) ==
    IF d = 0 THEN [n |-> Sign(n), d |-> 0]
    ELSE LET g == Gcd(Abs(n), Abs(d)) IN
         [n |-> (Sign(d) * n) \div g, d |-> Abs(d) \div g]

F(i) == Float(i, 1)

NAN == Float(0, 0)
INFINITY == Float(1, 0)
NEG_INFINITY == Float(-1, 0)

is_nan(x) == x.d = 0 /\ x.n = 0
is_finite(x) == x.d > 0

f_neg(a) == [n |-> -a.n, d |-> a.d]

f_add(a, b) ==
    IF a.d = 0 /\ b.d = 0
    THEN (IF a.n = b.n THEN a ELSE NAN)
    ELSE Float(a.n * b.d + b.n * a.d, a.d * b.d)

f_sub(a, b) == f_add(a, f_neg(b))

f_mul(a, b) == Float(a.n * b.n, a.d * b.d)

f_div(a, b) ==
    IF b.n = 0 /\ b.d > 0 THEN Float(a.n, 0)
    ELSE f_mul(a, Float(b.d * Sign(b.n), Abs(b.n)))

f_lt(a, b) ==
    /\ ~is_nan(a) /\ ~is_nan(b)
    /\ IF a.d = 0 /\ b.d = 0 THEN a.n < b.n ELSE a.n * b.d < b.n * a.d

f_gt(a, b) == f_lt(b, a)

f_le(a, b) == ~is_nan(a) /\ ~is_nan(b) /\ ~f_lt(b, a)

-----------------------------------------------------------------------------
(* interpolate_and_add_offsets (lib.rs).  A Vec is a sequence; the code's    *)
(* index i is position i + 1 of the sequence.                                *)

ClockOffsetChunk(c, v, id) == [collection_time |-> c, offset_value |-> v, stream_id |-> id]

\* slice::get
get(v, i) == IF i >= 0 /\ i < Len(v) THEN Some(v[i + 1]) ELSE None

\* slice::last
last(v) == IF v = <<>> THEN None ELSE Some(v[Len(v)])

\* Option::or_else
or_else(o, alt) == IF o.some THEN o ELSE alt

\* lines 428-434: the collection time of the entry after index i, NaN past the end
time_or_nan_NoLookahead(stream_offsets, i) ==
    IF get(stream_offsets, i).some
    THEN get(stream_offsets, i).v.collection_time
    ELSE NAN
time_or_nan(stream_offsets, i) ==
    IF get(stream_offsets, i + 1).some
    THEN get(stream_offsets, i + 1).v.collection_time
    ELSE NAN

\* line 441: the timestamp is older than the first clock offset
OlderThanFirst_Never(ts, stream_offsets) == FALSE
OlderThanFirst(ts, stream_offsets) == f_lt(ts, stream_offsets[1].collection_time)

\* line 453: the condition of the while loop
LoopCondition(ts, stream_offsets, offset_index) ==
    f_gt(ts, time_or_nan(stream_offsets, offset_index))

\* lines 453-455: the value of *offset_index when the while loop ends
RECURSIVE advance(_, _, _)
advance_Stay(ts, stream_offsets, offset_index) == offset_index
advance(ts, stream_offsets, offset_index) ==
    IF LoopCondition(ts, stream_offsets, offset_index)
    THEN advance(ts, stream_offsets, offset_index + 1)
    ELSE offset_index

\* lines 467-475: a * (1-x) + b * x between the offsets l and n
interpolate_Flat(ts, l, n) == l.offset_value
interpolate(ts, l, n) ==
    LET dt == f_sub(n.collection_time, l.collection_time) IN
    IF f_gt(dt, F(0))
    THEN LET t_normalised == f_div(f_sub(ts, l.collection_time), dt) IN
         f_add(f_mul(l.offset_value, f_sub(F(1), t_normalised)),
               f_mul(n.offset_value, t_normalised))
    ELSE l.offset_value

\* lines 457-480: the value returned once the cursor stands at offset_index
interpolated_at(ts, stream_offsets, offset_index) ==
    LET prev_offset == or_else(get(stream_offsets, offset_index), last(stream_offsets))
        next_offset == or_else(get(stream_offsets, offset_index + 1), last(stream_offsets))
        interpolated ==
            IF prev_offset.some /\ next_offset.some
            THEN interpolate(ts, prev_offset.v, next_offset.v)
            ELSE IF prev_offset.some THEN prev_offset.v.offset_value
            ELSE IF next_offset.some THEN next_offset.v.offset_value
            ELSE F(0)
    IN  f_add(ts, interpolated)

\* lines 424-482: the whole call; value is what it returns and offset_index is
\* the cursor it leaves behind
interpolate_and_add_offsets(ts, stream_offsets, offset_index) ==
    IF stream_offsets = <<>>
    THEN [value |-> ts, offset_index |-> offset_index]
    ELSE IF OlderThanFirst(ts, stream_offsets)
    THEN [value |-> f_add(ts, stream_offsets[1].offset_value),
          offset_index |-> offset_index]
    ELSE LET idx == advance(ts, stream_offsets, offset_index) IN
         [value |-> interpolated_at(ts, stream_offsets, idx), offset_index |-> idx]

-----------------------------------------------------------------------------
(* process_samples (lib.rs).  A SampleIter is the sequence of the samples it *)
(* still yields; peek is its first element.                                  *)

Sample(timestamp, values) == [timestamp |-> timestamp, values |-> values]

\* FiniteF64::new
FiniteF64_new(x) == IF is_finite(x) THEN Some(x) ELSE None

\* lines 349-353 and 360: the finite timestamp of the first sample of an iterator
first_finite_timestamp(it) ==
    IF it = <<>> THEN None
    ELSE IF ~it[1].timestamp.some THEN None
    ELSE FiniteF64_new(it[1].timestamp.v)

\* lines 356-369: the loop over the iterators after the first one
RECURSIVE merge_rest(_, _, _)
merge_rest(rest, k, merged) ==
    IF k > Len(rest) THEN merged
    ELSE LET it == rest[k]
             ts == first_finite_timestamp(it)
             n == Len(merged)
         IN  IF it = <<>> THEN merge_rest(rest, k + 1, merged)
             ELSE IF ts.some
             THEN merge_rest(rest, k + 1, Append(merged, [key |-> ts.v, its |-> <<it>>]))
             ELSE merge_rest(rest, k + 1,
                     [merged EXCEPT ![n] = [key |-> merged[n].key,
                                            its |-> Append(merged[n].its, it)]])

\* lines 345-370: the iterators grouped under the timestamp that anchors them
sample_iterators_merged(sample_iterators) ==
    IF sample_iterators = <<>> THEN <<>>
    ELSE LET first == sample_iterators[1]
             ts == first_finite_timestamp(first)
             first_ts == IF ts.some THEN ts.v ELSE F(0)
         IN  merge_rest(Tail(sample_iterators), 1, <<[key |-> first_ts, its |-> <<first>>]>>)

\* line 375: slice::sort_by_key, a stable sort; insert puts g behind the
\* entries whose key is not greater
RECURSIVE insert(_, _)
insert(sorted, g) ==
    IF sorted = <<>> THEN <<g>>
    ELSE IF f_lt(g.key, sorted[1].key) THEN <<g>> \o sorted
    ELSE <<sorted[1]>> \o insert(Tail(sorted), g)

RECURSIVE sort_by_key(_)
sort_by_key_Unsorted(groups) == groups
sort_by_key(groups) ==
    IF groups = <<>> THEN <<>>
    ELSE insert(sort_by_key(SubSeq(groups, 1, Len(groups) - 1)), groups[Len(groups)])

\* Iterator::flatten on a sequence of sequences
RECURSIVE flatten(_)
flatten(ss) == IF ss = <<>> THEN <<>> ELSE ss[1] \o flatten(Tail(ss))

\* lines 377-381: the iterators of the sorted groups, the empty ones left out
RECURSIVE non_empty(_)
non_empty(its) ==
    IF its = <<>> THEN <<>>
    ELSE IF its[1] = <<>> THEN non_empty(Tail(its))
    ELSE <<its[1]>> \o non_empty(Tail(its))

sorted_iterators(sample_iterators) ==
    non_empty(flatten([k \in DOMAIN sort_by_key(sample_iterators_merged(sample_iterators))
                         |-> sort_by_key(sample_iterators_merged(sample_iterators))[k].its]))

\* lines 404-406: the timestamp given to sample i when it carries none
synthesized_timestamp_FromStart(i, most_recent_timestamp, srate) ==
    f_add(most_recent_timestamp[2], f_div(F(i), srate))
synthesized_timestamp(i, most_recent_timestamp, srate) ==
    LET old_i == most_recent_timestamp[1]
        old_timestamp == most_recent_timestamp[2]
        samples_since_ts == i - old_i
    IN  f_add(old_timestamp, f_div(F(samples_since_ts), srate))

\* lines 396-418: the closure applied to sample s at position i of the merged
\* sequence; st holds most_recent_timestamp and offset_index
map_sample(i, s, nominal_srate, stream_offsets, st) ==
    IF nominal_srate.some
    THEN LET srate == nominal_srate.v
             timestamp == IF s.timestamp.some THEN s.timestamp.v
                          ELSE synthesized_timestamp(i, st.most_recent_timestamp, srate)
             r == interpolate_and_add_offsets(timestamp, stream_offsets, st.offset_index)
         IN  [sample |-> Sample(Some(r.value), s.values),
              st |-> [most_recent_timestamp |->
                          IF s.timestamp.some THEN <<i, s.timestamp.v>>
                          ELSE st.most_recent_timestamp,
                      offset_index |-> r.offset_index]]
    ELSE [sample |-> s, st |-> st]

\* lines 392-419: enumerate, map and collect
RECURSIVE map_samples(_, _, _, _, _, _)
map_samples(samples, i, nominal_srate, stream_offsets, st, out) ==
    IF i >= Len(samples) THEN out
    ELSE LET r == map_sample(i, samples[i + 1], nominal_srate, stream_offsets, st) IN
         map_samples(samples, i + 1, nominal_srate, stream_offsets, r.st,
                     Append(out, r.sample))

\* lines 327-420
process_samples(sample_iterators, stream_offsets, nominal_srate) ==
    map_samples(flatten(sorted_iterators(sample_iterators)), 0, nominal_srate,
                stream_offsets,
                [most_recent_timestamp |-> <<0, F(0)>>, offset_index |-> 0], <<>>)

-----------------------------------------------------------------------------
(* group_chunks and process_streams (lib.rs).  A HashMap is a function from  *)
(* its keys to its values.                                                   *)

Chunk_FileHeader == [kind |-> "FileHeader", c |-> [stream_id |-> 0]]
Chunk_StreamHeader(id, nominal_srate) ==
    [kind |-> "StreamHeader", c |-> [stream_id |-> id, nominal_srate |-> nominal_srate]]
Chunk_StreamFooter(id) == [kind |-> "StreamFooter", c |-> [stream_id |-> id]]
Chunk_Samples(id, samples) ==
    [kind |-> "Samples", c |-> [stream_id |-> id, samples |-> samples]]
Chunk_ClockOffset(id, collection_time, offset_value) ==
    [kind |-> "ClockOffset", c |-> ClockOffsetChunk(collection_time, offset_value, id)]
Chunk_Boundary == [kind |-> "Boundary", c |-> [stream_id |-> 0]]

\* HashMap::entry(key).or_default().push(value)
entry_push_Replace(map, key, value) == map_insert(map, key, <<value>>)
entry_push(map, key, value) ==
    map_insert(map, key, IF key \in DOMAIN map THEN Append(map[key], value) ELSE <<value>>)

\* HashMap::remove(key).unwrap_or_default() on maps of vectors
remove_or_default(map, key) == IF key \in DOMAIN map THEN map[key] ELSE <<>>

\* lines 175-207: the chunks routed one after the other
RECURSIVE route_chunks(_, _, _)
route_chunks(chunks, k, g) ==
    IF k > Len(chunks) THEN g
    ELSE LET chunk == chunks[k] IN
         route_chunks(chunks, k + 1,
            CASE chunk.kind = "FileHeader" ->
                    [g EXCEPT !.file_header_chunk = Some(chunk.c)]
              [] chunk.kind = "StreamHeader" ->
                    [g EXCEPT !.stream_header_chunks = Append(@, chunk.c)]
              [] chunk.kind = "StreamFooter" ->
                    [g EXCEPT !.stream_footer_chunks = Append(@, chunk.c)]
              [] chunk.kind = "Samples" ->
                    [g EXCEPT !.sample_map = entry_push(@, chunk.c.stream_id, chunk.c.samples)]
              [] chunk.kind = "ClockOffset" ->
                    [g EXCEPT !.clock_offsets = entry_push(@, chunk.c.stream_id, chunk.c)]
              [] OTHER -> g)

\* lines 168-220
group_chunks(chunks) ==
    LET g == route_chunks(chunks, 1,
                [file_header_chunk |-> None, stream_header_chunks |-> <<>>,
                 stream_footer_chunks |-> <<>>, clock_offsets |-> <<>>,
                 sample_map |-> <<>>])
    IN  IF g.file_header_chunk.some
        THEN [kind |-> "Ok", err |-> "", info |-> g]
        ELSE [kind |-> "Err", err |-> "MissingFileHeader", info |-> g]

\* lines 224-234: collect() of (stream_id, chunk) pairs into a HashMap, a later
\* chunk replacing an earlier one of the same id
RECURSIVE collect_by_id(_, _, _)
collect_by_id(cs, k, map) ==
    IF k > Len(cs) THEN map
    ELSE collect_by_id(cs, k + 1, map_insert(map, cs[k].stream_id, cs[k]))

\* line 270: Vec::retain of the entries whose two numbers are finite
RECURSIVE retain_finite(_)
retain_finite_All(os) == os
retain_finite(os) ==
    IF os = <<>> THEN <<>>
    ELSE IF is_finite(os[1].collection_time) /\ is_finite(os[1].offset_value)
    THEN <<os[1]>> \o retain_finite(Tail(os))
    ELSE retain_finite(Tail(os))

\* PartialOrd of ClockOffsetChunk: a <= b
clock_offset_le_Always(a, b) == TRUE
clock_offset_le(a, b) == f_le(a.collection_time, b.collection_time)

\* line 272: slice::is_sorted, every entry <= the one after it
is_sorted(os) == \A k \in 1..(Len(os) - 1) : clock_offset_le(os[k], os[k + 1])

\* lines 282-303
measured_srate(nominal_srate, samples_vec) ==
    IF nominal_srate.some /\ samples_vec # <<>>
       /\ samples_vec[1].timestamp.some /\ samples_vec[Len(samples_vec)].timestamp.some
    THEN LET delta == f_sub(samples_vec[Len(samples_vec)].timestamp.v,
                            samples_vec[1].timestamp.v)
         IN  IF f_le(delta, F(0)) \/ ~is_finite(delta) THEN None
             ELSE Some(f_div(F(Len(samples_vec)), delta))
    ELSE None

\* lines 253-320: the body of the for loop for one entry of stream_header_map
process_stream(stream_id, header, stream_footer_map, grouped_chunks) ==
    LET stream_offsets == retain_finite(remove_or_default(grouped_chunks.clock_offsets,
                                                          header.stream_id))
        samples_vec == process_samples(remove_or_default(grouped_chunks.sample_map, stream_id),
                                       stream_offsets, header.nominal_srate)
    IN  IF ~is_sorted(stream_offsets)
        THEN [kind |-> "Err", err |-> "InvalidClockOffset", stream |-> <<>>]
        ELSE [kind |-> "Ok", err |-> "",
              stream |-> [id |-> stream_id,
                          nominal_srate |-> header.nominal_srate,
                          footer |-> stream_id \in DOMAIN stream_footer_map,
                          measured_srate |-> measured_srate(header.nominal_srate,
                                                            samples_vec),
                          samples |-> samples_vec]]

-----------------------------------------------------------------------------
(* XDFFile::from_bytes after the parser: group_chunks, then the for loop of  *)
(* process_streams, one entry of stream_header_map per step.  The order in   *)
(* which a HashMap yields its entries is not fixed by the code, so the loop  *)
(* takes any entry not yet visited.                                          *)

StreamsResult(kind, err, streams) == [kind |-> kind, err |-> err, streams |-> streams]

\* the calls of from_bytes made on one input: a second call shows whether the
\* result depends on anything but the input
Runs == {1, 2}

\* lines 133-158 and 224-251: from_bytes up to the head of the for loop
FromBytes ==
    /\ fb_pc = "idle"
    /\ fb_run + 1 \in Runs
    /\ fb_run' = fb_run + 1
    /\ LET g == group_chunks(fb_chunks) IN
       IF g.kind = "Err"
       THEN /\ fb_results' = Append(fb_results, StreamsResult("Err", g.err, <<>>))
            /\ UNCHANGED <<fb_pc, fb_grouped, fb_pending, fb_streams_vec>>
       ELSE /\ fb_grouped' = g.info
            /\ fb_pending' = DOMAIN collect_by_id(g.info.stream_header_chunks, 1, <<>>)
            /\ fb_streams_vec' = <<>>
            /\ fb_pc' = "streams"
            /\ UNCHANGED fb_results
    /\ UNCHANGED fb_chunks
    /\ UNCHANGED <<framerVars, decodeVars, headerVars, samplesVars, interpVars>>

\* lines 253-320: one iteration of for (stream_id, stream_header) in stream_header_map
ProcessStream ==
    /\ fb_pc = "streams"
    /\ \E stream_id \in fb_pending :
         LET stream_header_map == collect_by_id(fb_grouped.stream_header_chunks, 1, <<>>)
             stream_footer_map == collect_by_id(fb_grouped.stream_footer_chunks, 1, <<>>)
             r == process_stream(stream_id, stream_header_map[stream_id],
                                 stream_footer_map, fb_grouped)
         IN  IF r.kind = "Err"
             THEN /\ fb_results' = Append(fb_results, StreamsResult("Err", r.err, <<>>))
                  /\ fb_pc' = "idle"
                  /\ UNCHANGED <<fb_pending, fb_streams_vec>>
             ELSE /\ fb_streams_vec' = Append(fb_streams_vec, r.stream)
                  /\ fb_pending' = fb_pending \ {stream_id}
                  /\ UNCHANGED <<fb_pc, fb_results>>
    /\ UNCHANGED <<fb_chunks, fb_run, fb_grouped>>
    /\ UNCHANGED <<framerVars, decodeVars, headerVars, samplesVars, interpVars>>

\* lines 322 and 158-163: the loop is over, from_bytes returns the streams
ReturnStreams ==
    /\ fb_pc = "streams"
    /\ fb_pending = {}
    /\ fb_results' = Append(fb_results, StreamsResult("Ok", "", fb_streams_vec))
    /\ fb_pc' = "idle"
    /\ UNCHANGED <<fb_chunks, fb_run, fb_grouped, fb_pending, fb_streams_vec>>
    /\ UNCHANGED <<framerVars, decodeVars, headerVars, samplesVars, interpVars>>

-----------------------------------------------------------------------------
(* Inputs of from_bytes: a FileHeader, the StreamHeaders, then up to         *)
(* MaxStreamChunks further chunks.  The values of a sample name the chunk    *)
(* and the place it was read from, so that no two samples are alike.         *)

\* most chunks after the stream headers of one file
MaxStreamChunks == 3

StreamHeaderPrefixes ==
    { <<Chunk_StreamHeader(1, Some(F(1)))>>,
      <<Chunk_StreamHeader(1, None), Chunk_StreamFooter(1),
        Chunk_StreamHeader(2, Some(F(1)))>>,
      <<Chunk_StreamHeader(2, Some(F(2))), Chunk_StreamHeader(1, Some(F(2))),
        Chunk_StreamHeader(2, Some(F(0))), Chunk_StreamFooter(3)>> }

ClockOffsetTemplates ==
    { Chunk_ClockOffset(1, F(0), F(1)), Chunk_ClockOffset(1, F(1), F(0)),
      Chunk_ClockOffset(1, F(1), F(1)), Chunk_ClockOffset(1, F(1), NAN),
      Chunk_ClockOffset(2, INFINITY, F(0)), Chunk_ClockOffset(2, F(1), F(0)),
      Chunk_ClockOffset(2, F(0), F(0)) }

\* the timestamps of the samples of a chunk; values are filled in by Labelled
SamplesTemplates ==
    { Chunk_Samples(1, <<Some(F(1))>>), Chunk_Samples(1, <<None, Some(F(0))>>),
      Chunk_Samples(2, <<Some(F(1))>>) }

BodyTemplates == ClockOffsetTemplates \cup SamplesTemplates

\* the chunk at place k of the file, its samples carrying <<k, j>> as values
Labelled(chunk, k) ==
    IF chunk.kind = "Samples"
    THEN Chunk_Samples(chunk.c.stream_id,
                       [j \in DOMAIN chunk.c.samples |->
                            Sample(chunk.c.samples[j], <<k, j>>)])
    ELSE chunk

LabelledFile(chunks) == [k \in DOMAIN chunks |-> Labelled(chunks[k], k)]

StreamsInputs ==
    { LabelledFile(<<Chunk_FileHeader, Chunk_Boundary>> \o h \o b) :
          h \in StreamHeaderPrefixes,
          b \in UNION {[1..n -> BodyTemplates] : n \in 0..MaxStreamChunks} }
    \cup { LabelledFile(h \o b) :
          h \in StreamHeaderPrefixes, b \in UNION {[1..n -> SamplesTemplates] : n \in 0..1} }

InitStreams ==
    /\ fb_chunks \in StreamsInputs
    /\ fb_pc = "idle"
    /\ fb_run = 0
    /\ fb_grouped = <<>>
    /\ fb_pending = {}
    /\ fb_streams_vec = <<>>
    /\ fb_results = <<>>
    /\ FramerIdle /\ DecodeIdle /\ HeaderIdle /\ SamplesIdle /\ InterpIdle

NextStreams == FromBytes \/ ProcessStream \/ ReturnStreams

SpecStreams == InitStreams /\ [][NextStreams]_vars

-----------------------------------------------------------------------------
(* What the file says about a stream, read off the input chunks *)

HasFileHeader == \E k \in DOMAIN fb_chunks : fb_chunks[k].kind = "FileHeader"

DeclaredIds ==
    {fb_chunks[k].c.stream_id : k \in {j \in DOMAIN fb_chunks : fb_chunks[j].kind = "StreamHeader"}}

IsOffsetOf(chunk, id) == chunk.kind = "ClockOffset" /\ chunk.c.stream_id = id

\* the ClockOffset chunks of stream id in arrival order
ArrivedOffsets(id) == SelectSeq(fb_chunks, LAMBDA chunk : IsOffsetOf(chunk, id))

\* those of them whose collection_time and offset_value are both finite
FiniteOffsets(id) ==
    SelectSeq(fb_chunks, LAMBDA chunk : /\ IsOffsetOf(chunk, id)
                                        /\ chunk.c.collection_time.d > 0
                                        /\ chunk.c.offset_value.d > 0)

\* some entry has a collection_time below that of an entry that arrived before it
TimeGoesBack(os) ==
    \E i, j \in DOMAIN os :
        i < j /\ os[j].c.collection_time.n * os[i].c.collection_time.d
                    < os[i].c.collection_time.n * os[j].c.collection_time.d

-----------------------------------------------------------------------------
-----------------------------------------------------------------------------
(* process_samples on the sample chunks of one stream *)

ProcessSamples ==
    /\ ps_pc = "ready"
    /\ ps_out' = process_samples(ps_iterators, ps_offsets, ps_srate)
    /\ ps_pc' = "done"
    /\ UNCHANGED <<ps_iterators, ps_offsets, ps_srate>>
    /\ UNCHANGED <<framerVars, decodeVars, headerVars, streamsVars, interpVars>>

\* most Samples chunks of the stream
MaxIterators == 3

\* line 53 of parsers/stream_header.rs: the nominal_srate read from its text
nominal_srate_of(text) ==
    LET parsed == parse_f64(text) IN
    IF parsed.some THEN Some(F(parsed.v)) ELSE None

\* no number, "0" and "2"
SampleRates == {nominal_srate_of(t) : t \in {<<>>, T_0, <<50>>}}

FirstTimestamps == {None, Some(F(-1)), Some(F(0)), Some(NAN)}
LaterTimestamps == {None, Some(F(3))}

\* the timestamps of the samples of one chunk
ChunkTimestamps ==
    {<<>>} \cup {<<a>> : a \in FirstTimestamps}
           \cup {<<a, b>> : a \in FirstTimestamps, b \in LaterTimestamps}

\* chunk k of the stream, its samples carrying <<k, j>> as values
LabelledIterators(tss) ==
    [k \in DOMAIN tss |-> [j \in DOMAIN tss[k] |-> Sample(tss[k][j], <<k, j>>)]]

SampleIteratorInputs ==
    {LabelledIterators(tss) : tss \in UNION {[1..n -> ChunkTimestamps] : n \in 0..MaxIterators}}

OffsetTables ==
    {<<>>, <<ClockOffsetChunk(F(0), F(1), 1), ClockOffsetChunk(F(2), F(3), 1)>>}

InitSamples ==
    /\ ps_iterators \in SampleIteratorInputs
    /\ ps_offsets \in OffsetTables
    /\ ps_srate \in SampleRates
    /\ ps_pc = "ready"
    /\ ps_out = <<>>
    /\ FramerIdle /\ DecodeIdle /\ HeaderIdle /\ StreamsIdle /\ InterpIdle

NextSamples == ProcessSamples

SpecSamples == InitSamples /\ [][NextSamples]_vars

-----------------------------------------------------------------------------
(* The samples of the input chunks, in arrival order *)

ArrivedSamples == flatten(ps_iterators)

\* the place in ArrivedSamples of the sample with the given values
ArrivalPlace(values) == CHOOSE p \in DOMAIN ArrivedSamples : ArrivedSamples[p].values = values

IsZero(x) == x.d > 0 /\ x.n = 0

-----------------------------------------------------------------------------
\* C12: a stream whose nominal_srate is absent or zero is irregular:
\* process_samples hands every sample on with the timestamp and the values it
\* was decoded with; a missing timestamp stays missing and no clock offset is
\* added, even when the stream has clock offsets.
C12_IrregularPassThrough ==
    (ps_pc = "done" /\ (~ps_srate.some \/ IsZero(ps_srate.v))) =>
        /\ Len(ps_out) = Len(ArrivedSamples)
        /\ \A p \in DOMAIN ps_out : ps_out[p] = ArrivedSamples[ArrivalPlace(ps_out[p].values)]

-----------------------------------------------------------------------------
\* C13: from_bytes is a function of its input alone: two calls on the same
\* input return equal results, the streams in the same order, also when the
\* file declares two or more stream ids.
C13_FromBytesDeterministic ==
    \A r1, r2 \in DOMAIN fb_results : fb_results[r1] = fb_results[r2]

-----------------------------------------------------------------------------
(* Where the samples of the input chunks stand in the output of process_samples *)

NonEmptyChunk(k) == ps_iterators[k] # <<>>

\* the first sample of chunk k carries a finite timestamp
FiniteFirst(k) ==
    /\ NonEmptyChunk(k)
    /\ ps_iterators[k][1].timestamp.some
    /\ ps_iterators[k][1].timestamp.v.d > 0

FirstTimestamp(k) == ps_iterators[k][1].timestamp.v

Placed(k, j) == \E p \in DOMAIN ps_out : ps_out[p].values = <<k, j>>

\* the place in the output of sample j of chunk k
Place(k, j) == CHOOSE p \in DOMAIN ps_out : ps_out[p].values = <<k, j>>

\* the last non-empty chunk that arrived before chunk k, 0 when there is none
NonEmptyBefore(k) ==
    LET earlier == {m \in 1..(k - 1) : NonEmptyChunk(m)} IN
    IF earlier = {} THEN 0 ELSE CHOOSE m \in earlier : \A o \in earlier : o <= m

-----------------------------------------------------------------------------
\* C14: in the sequence process_samples builds for one stream, the chunks whose
\* first sample has a finite timestamp stand in ascending order of that
\* timestamp, equal timestamps in arrival order; the samples of a chunk stay
\* together in their order; a non-empty chunk without a finite first timestamp
\* stands directly behind the non-empty chunk that arrived before it; and the
\* very first chunk, when it has no finite first timestamp, is ordered as if
\* its first timestamp were 0.0.
C14_ChunkOrder ==
    ps_pc = "done" =>
        /\ \A k \in DOMAIN ps_iterators : \A j \in DOMAIN ps_iterators[k] : Placed(k, j)
        /\ \A k \in DOMAIN ps_iterators : \A j \in 1..(Len(ps_iterators[k]) - 1) :
               Place(k, j + 1) = Place(k, j) + 1
        /\ \A k1, k2 \in DOMAIN ps_iterators :
               (/\ FiniteFirst(k1) /\ FiniteFirst(k2)
                /\ \/ f_lt(FirstTimestamp(k1), FirstTimestamp(k2))
                   \/ (FirstTimestamp(k1) = FirstTimestamp(k2) /\ k1 < k2))
               => Place(k1, 1) < Place(k2, 1)
        /\ \A k \in DOMAIN ps_iterators :
               (NonEmptyChunk(k) /\ ~FiniteFirst(k) /\ NonEmptyBefore(k) # 0)
               => Place(k, 1) = Place(NonEmptyBefore(k),
                                      Len(ps_iterators[NonEmptyBefore(k)])) + 1
        /\ \A k \in DOMAIN ps_iterators :
               (NonEmptyChunk(1) /\ ~FiniteFirst(1) /\ FiniteFirst(k))
               => IF f_lt(FirstTimestamp(k), F(0))
                  THEN Place(k, 1) < Place(1, 1)
                  ELSE Place(1, 1) < Place(k, 1)

\* three chunks were merged: the first has no finite first timestamp, a later
\* one with a negative first timestamp went in front of it, and a chunk without
\* a first timestamp followed that one
C14_Witness ==
    /\ ps_pc = "done"
    /\ Len(ps_iterators) >= 3
    /\ NonEmptyChunk(1) /\ ~FiniteFirst(1)
    /\ \E k \in DOMAIN ps_iterators :
         /\ FiniteFirst(k) /\ f_lt(FirstTimestamp(k), F(0))
         /\ k < Len(ps_iterators) /\ NonEmptyChunk(k + 1) /\ ~FiniteFirst(k + 1)
         /\ Place(k + 1, 1) < Place(1, 1)

-----------------------------------------------------------------------------
\* the timestamp the sample at place p of the output was decoded with
DecodedTimestamp(p) == ArrivedSamples[ArrivalPlace(ps_out[p].values)].timestamp

\* the samples at the places p+1 .. q of the output were decoded without a timestamp
RunWithoutTimestamps(p, q) == \A m \in (p + 1)..q : ~DecodedTimestamp(m).some

\* C15: with a nominal_srate r > 0 and no clock offsets, a sample decoded with
\* the timestamp t0 and the k samples without a timestamp that follow it in the
\* merged sequence, across chunk boundaries too, get the timestamps t0 + j/r,
\* j = 0..k being the number of places since the sample that carried t0.
C15_SynthesizedTimestamps ==
    (ps_pc = "done" /\ ps_srate.some /\ f_gt(ps_srate.v, F(0)) /\ ps_offsets = <<>>) =>
        \A p \in DOMAIN ps_out : \A q \in p..Len(ps_out) :
            (DecodedTimestamp(p).some /\ RunWithoutTimestamps(p, q)) =>
                ps_out[q].timestamp
                    = Some(f_add(DecodedTimestamp(p).v, f_div(F(q - p), ps_srate.v)))

\* a run of one stamped sample and two samples without a timestamp that ends
\* in a later chunk than it began, the stamped sample not being the first of
\* the output
C15_Witness ==
    /\ ps_pc = "done" /\ ps_srate.some /\ f_gt(ps_srate.v, F(0)) /\ ps_offsets = <<>>
    /\ \E p \in DOMAIN ps_out :
         /\ p > 1 /\ p + 2 <= Len(ps_out)
         /\ DecodedTimestamp(p).some /\ DecodedTimestamp(p).v.d > 0
         /\ RunWithoutTimestamps(p, p + 2)
         /\ ps_out[p + 2].values[1] # ps_out[p].values[1]

-----------------------------------------------------------------------------
(* Calls of interpolate_and_add_offsets on one table, the cursor handed from *)
(* each call to the next.  The while loop runs one iteration per step.       *)

\* most entries of the offset table
MaxOffsets == 3

\* most calls made on one table
MaxCalls == 2

CollectionTimes == {F(0), F(2), F(3)}
OffsetValues == {F(-1), F(1)}

\* the tables process_streams lets through: finite numbers, collection times
\* that do not go back
InterpTables ==
    {os \in UNION {[1..n -> {ClockOffsetChunk(c, v, 1) : c \in CollectionTimes,
                                                         v \in OffsetValues}]
                   : n \in 0..MaxOffsets} :
        \A k \in 1..(Len(os) - 1) : f_le(os[k].collection_time, os[k + 1].collection_time)}

Timestamps == {F(-1), F(0), F(1), F(2), Float(5, 2), F(3), F(4)}

\* lines 424-450: the call begins; it returns at once on an empty table and on
\* a timestamp older than the first offset
Call(ts) ==
    /\ ip_pc = "idle"
    /\ ip_calls < MaxCalls
    /\ ip_calls' = ip_calls + 1
    /\ ip_ts' = ts
    /\ ip_entry' = ip_index
    /\ ip_sorted_ts' = (ip_sorted_ts /\ (ip_calls = 0 \/ f_le(ip_ts, ts)))
    /\ IF ip_offsets = <<>>
       THEN ip_ret' = Some(ts) /\ ip_pc' = "idle"
       ELSE IF OlderThanFirst(ts, ip_offsets)
       THEN ip_ret' = Some(f_add(ts, ip_offsets[1].offset_value)) /\ ip_pc' = "idle"
       ELSE ip_ret' = None /\ ip_pc' = "loop"
    /\ UNCHANGED <<ip_offsets, ip_index, ip_start, ip_increments>>
    /\ UNCHANGED <<framerVars, decodeVars, headerVars, streamsVars, samplesVars>>

\* lines 453-455: one iteration of the while loop
LoopStep ==
    /\ ip_pc = "loop"
    /\ LoopCondition(ip_ts, ip_offsets, ip_index)
    /\ ip_index' = ip_index + 1
    /\ ip_increments' = ip_increments + 1
    /\ UNCHANGED <<ip_offsets, ip_pc, ip_start, ip_entry, ip_ts, ip_ret, ip_calls,
                   ip_sorted_ts>>
    /\ UNCHANGED <<framerVars, decodeVars, headerVars, streamsVars, samplesVars>>

\* lines 457-480: the loop is over, the call returns ts + interpolated
Return ==
    /\ ip_pc = "loop"
    /\ ~LoopCondition(ip_ts, ip_offsets, ip_index)
    /\ ip_ret' = Some(interpolated_at(ip_ts, ip_offsets, ip_index))
    /\ ip_pc' = "idle"
    /\ UNCHANGED <<ip_offsets, ip_index, ip_start, ip_entry, ip_ts, ip_calls,
                   ip_sorted_ts, ip_increments>>
    /\ UNCHANGED <<framerVars, decodeVars, headerVars, streamsVars, samplesVars>>

\* the cursor is 0 before the first call (line 336); a cursor past the end of
\* the table stands for the values no call leaves behind
InitInterp ==
    /\ ip_offsets \in InterpTables
    /\ ip_start \in {0, Len(ip_offsets)}
    /\ ip_index = ip_start
    /\ ip_entry = ip_start
    /\ ip_pc = "idle"
    /\ ip_ts = F(0)
    /\ ip_ret = None
    /\ ip_calls = 0
    /\ ip_sorted_ts = TRUE
    /\ ip_increments = 0
    /\ FramerIdle /\ DecodeIdle /\ HeaderIdle /\ StreamsIdle /\ SamplesIdle

NextInterp == (\E ts \in Timestamps : Call(ts)) \/ LoopStep \/ Return

SpecInterp == InitInterp /\ [][NextInterp]_vars

-----------------------------------------------------------------------------
(* The latest call and the table it ran on *)

Returned == ip_pc = "idle" /\ ip_calls > 0

StrictlyIncreasing(os) ==
    \A k \in 1..(Len(os) - 1) : f_lt(os[k].collection_time, os[k + 1].collection_time)

\* t + a.v * (1 - x) + b.v * x with x = (t - a.c) / (b.c - a.c)
Linear(t, a, b) ==
    LET x == f_div(f_sub(t, a.collection_time), f_sub(b.collection_time, a.collection_time))
    IN  f_add(t, f_add(f_mul(a.offset_value, f_sub(F(1), x)), f_mul(b.offset_value, x)))

-----------------------------------------------------------------------------
\* C16: on a table of strictly increasing collection times, a call that starts
\* with the cursor at 0 returns, for a timestamp t with c_i <= t <= c_(i+1),
\* t + v_i*(1 - x) + v_(i+1)*x where x = (t - c_i)/(c_(i+1) - c_i); on the table
\* [(0, v0), (T, v1)] and t in [0, T] that is t + v0*(1 - t/T) + v1*(t/T).
C16_InterpolationInside ==
    (Returned /\ ip_entry = 0 /\ StrictlyIncreasing(ip_offsets)) =>
        /\ \A i \in 1..(Len(ip_offsets) - 1) :
               (/\ f_le(ip_offsets[i].collection_time, ip_ts)
                /\ f_le(ip_ts, ip_offsets[i + 1].collection_time))
               => ip_ret = Some(Linear(ip_ts, ip_offsets[i], ip_offsets[i + 1]))
        /\ (/\ Len(ip_offsets) = 2
            /\ ip_offsets[1].collection_time = F(0)
            /\ f_le(F(0), ip_ts) /\ f_le(ip_ts, ip_offsets[2].collection_time))
           => LET T == ip_offsets[2].collection_time
                  v0 == ip_offsets[1].offset_value
                  v1 == ip_offsets[2].offset_value
              IN  ip_ret = Some(f_add(ip_ts,
                                 f_add(f_mul(v0, f_sub(F(1), f_div(ip_ts, T))),
                                       f_mul(v1, f_div(ip_ts, T)))))

\* a call on a table of three entries returned for a timestamp strictly inside
\* the second segment, whose two offset values differ
C16_Witness ==
    /\ Returned /\ ip_entry = 0 /\ StrictlyIncreasing(ip_offsets)
    /\ Len(ip_offsets) = 3
    /\ f_lt(ip_offsets[2].collection_time, ip_ts)
    /\ f_lt(ip_ts, ip_offsets[3].collection_time)
    /\ ip_offsets[2].offset_value # ip_offsets[3].offset_value

-----------------------------------------------------------------------------
\* C17: on a non-empty sorted table and for any value of the cursor, a call
\* with a timestamp t below the first collection time returns t + v_0 and
\* leaves the cursor as it was, and a call with t above the last collection
\* time returns t + v_last, the last segment not being prolonged.
C17_ClampOutside ==
    (Returned /\ ip_offsets # <<>>) =>
        /\ f_lt(ip_ts, ip_offsets[1].collection_time)
           => /\ ip_ret = Some(f_add(ip_ts, ip_offsets[1].offset_value))
              /\ ip_index = ip_entry
        /\ f_gt(ip_ts, ip_offsets[Len(ip_offsets)].collection_time)
           => ip_ret = Some(f_add(ip_ts, ip_offsets[Len(ip_offsets)].offset_value))

\* a call entered with the cursor off 0 returned for a timestamp below the
\* first collection time of a table whose first two offset values differ
C17_Witness ==
    /\ Returned /\ Len(ip_offsets) >= 2
    /\ ip_entry > 0
    /\ f_lt(ip_ts, ip_offsets[1].collection_time)
    /\ ip_offsets[1].offset_value # ip_offsets[2].offset_value
    /\ f_lt(ip_offsets[1].collection_time, ip_offsets[2].collection_time)

-----------------------------------------------------------------------------
\* C18: over any sequence of calls that share one cursor started at 0 on a
\* non-empty table O, the cursor never decreases and never exceeds |O| - 1, and
\* the increments of all calls together number at most |O| - 1; every call
\* ends, its loop being entered again only while another increment is left.
C18_CursorBounded ==
    /\ [](  (ip_start = 0 /\ ip_offsets # <<>>) =>
                /\ ip_index <= Len(ip_offsets) - 1
                /\ ip_increments <= Len(ip_offsets) - 1
                /\ ip_index = ip_start + ip_increments
                /\ (ip_pc = "loop" /\ LoopCondition(ip_ts, ip_offsets, ip_index))
                   => ip_index + 1 <= Len(ip_offsets) - 1  )
    /\ [][ip_index' >= ip_index]_vars

\* a second call moved the cursor on to the last index after a first call had
\* moved it too
C18_Witness ==
    /\ Returned /\ ip_start = 0 /\ Len(ip_offsets) = MaxOffsets
    /\ ip_calls = 2
    /\ ip_entry > 0 /\ ip_index > ip_entry
    /\ ip_index = Len(ip_offsets) - 1

-----------------------------------------------------------------------------
(* The samples a file holds for a stream, and the samples a result gives it *)

\* the Samples chunks of stream id, in file order
SamplesChunksOf(id) ==
    SelectSeq(fb_chunks, LAMBDA chunk : chunk.kind = "Samples" /\ chunk.c.stream_id = id)

\* the samples decoded for stream id
DecodedSamplesOf(id) ==
    flatten([k \in DOMAIN SamplesChunksOf(id) |-> SamplesChunksOf(id)[k].c.samples])

ValuesOf(samples) == {samples[p].values : p \in DOMAIN samples}

-----------------------------------------------------------------------------
\* C19: reconstruction loses, repeats and alters no sample data: in every
\* result, the samples of a stream with a StreamHeader are exactly the samples
\* of the Samples chunks that carry its id, as many as were decoded, none of
\* another id, each with the values it was decoded with; only the timestamps
\* may differ.
C19_SamplesPreserved ==
    \A r \in DOMAIN fb_results :
        fb_results[r].kind = "Ok" =>
            /\ {fb_results[r].streams[s].id : s \in DOMAIN fb_results[r].streams} = DeclaredIds
            /\ Len(fb_results[r].streams) = Cardinality(DeclaredIds)
            /\ \A s \in DOMAIN fb_results[r].streams :
                 LET stream == fb_results[r].streams[s] IN
                 /\ Len(stream.samples) = Len(DecodedSamplesOf(stream.id))
                 /\ ValuesOf(stream.samples) = ValuesOf(DecodedSamplesOf(stream.id))

\* a result holds a stream made of two Samples chunks while the file also has
\* a Samples chunk of a stream id that no StreamHeader declares
C19_Witness ==
    /\ fb_results # <<>> /\ fb_results[1].kind = "Ok"
    /\ \E s \in DOMAIN fb_results[1].streams :
         /\ Len(SamplesChunksOf(fb_results[1].streams[s].id)) >= 2
         /\ Len(fb_results[1].streams[s].samples) >= 3
    /\ \E k \in DOMAIN fb_chunks :
         fb_chunks[k].kind = "Samples" /\ fb_chunks[k].c.stream_id \notin DeclaredIds

-----------------------------------------------------------------------------
\* C20: on a table sorted by collection_time, and for timestamps that never go
\* down from one call to the next, a call made with the cursor the earlier
\* calls left behind returns what a call with a fresh cursor of 0 returns for
\* the same timestamp.
C20_CarriedCursorAgrees ==
    (Returned /\ ip_start = 0 /\ ip_sorted_ts) =>
        ip_ret = Some(interpolate_and_add_offsets(ip_ts, ip_offsets, 0).value)

\* a second call, entered with a cursor an earlier call had moved, returned
\* for a timestamp inside the table
C20_Witness ==
    /\ Returned /\ ip_start = 0 /\ ip_sorted_ts
    /\ ip_calls = 2 /\ ip_entry > 0
    /\ Len(ip_offsets) = MaxOffsets
    /\ f_lt(ip_ts, ip_offsets[Len(ip_offsets)].collection_time)
    /\ ip_ret # Some(interpolated_at(ip_ts, ip_offsets, 0))

-----------------------------------------------------------------------------
(* The timestamp a sample of the output had before the offset was added *)

\* the last place at or before q whose sample was decoded with a timestamp,
\* 0 when there is none
LastStampedPlace(q) ==
    LET stamped == {p \in 1..q : DecodedTimestamp(p).some} IN
    IF stamped = {} THEN 0 ELSE CHOOSE p \in stamped : \A o \in stamped : o <= p

\* the explicit timestamp of the sample at place q, or the one synthesized
\* for it at the rate r
RawTimestamp(q, r) ==
    LET p == LastStampedPlace(q) IN
    IF p = 0 THEN f_add(F(0), f_div(F(q - 1), r))
    ELSE f_add(DecodedTimestamp(p).v, f_div(F(q - p), r))

Between(x, a, b) == (f_le(a, x) /\ f_le(x, b)) \/ (f_le(b, x) /\ f_le(x, a))

\* C21: within the reconstruction of one stream the corrected timestamp of a
\* sample depends on its own raw timestamp and the offset table alone: in any
\* order of the sample timestamps it equals what a call with a fresh cursor of
\* 0 returns for the raw timestamp, and for a raw timestamp within
\* [c_0, c_last] the correction added lies between the offset values of the
\* two entries that bracket it.
C21_CorrectionIndependentOfOrder ==
    (ps_pc = "done" /\ ps_srate.some /\ f_gt(ps_srate.v, F(0))) =>
        \A q \in DOMAIN ps_out :
            LET t == RawTimestamp(q, ps_srate.v) IN
            /\ ps_out[q].timestamp = Some(interpolate_and_add_offsets(t, ps_offsets, 0).value)
            /\ \A i \in 1..(Len(ps_offsets) - 1) :
                   (/\ f_le(ps_offsets[i].collection_time, t)
                    /\ f_le(t, ps_offsets[i + 1].collection_time))
                   => Between(f_sub(ps_out[q].timestamp.v, t),
                              ps_offsets[i].offset_value, ps_offsets[i + 1].offset_value)

====
